---- MODULE Spec2Model ----
(***************************************************************************)
(* Request orchestration of the axios API adapter: the deduplication queue *)
(* of src/src/Adapter/RequestQueue.ts and the per-request pipeline of      *)
(* fetchData in src/src/Adapter/Adapter.ts (cache lookup, transport        *)
(* attempt, retry decision, error message, cascade cancellation).          *)
(*                                                                         *)
(* One action is one run of the code between two suspension points of the  *)
(* cooperative scheduler (an await), with every call it makes included.    *)
(* hash-it is taken to be collision free: a fingerprint is the record of   *)
(* the fields that are hashed.                                             *)
(***************************************************************************)
EXTENDS Integers, Sequences, FiniteSets, TLC

\* ------------------------------------------------------------------ bounds
MaxCalls == 2
MaxClock == 1
MaxForcedRetries == 3
MaxConcurrentForcedRetries == 1

\* ------------------------------------------------------- program constants
MAX_REQUEST_RETRY_COUNT == 2
FAILED_REQUEST_RETRY_STATUS_BLACKLIST == {400, 401, 500}
CANCELLED_API_REQUEST_MESSAGE == "Request Cancelled"
EXPIRED_SESSION_ERROR_MESSAGES ==
  {"Session timed out", "Session expired", "User session timed out",
   "User session expired", "Invalid token"}

\* The message axios gives a cancellation that was given none.
AxiosCanceledMessage == "canceled"
\* The label fetchData falls back to.
DefaultLabel == "operation"

\* ------------------------------------------------------------------ inputs
Verbs == {"get", "post", "put", "patch", "_delete"}

\* A verb function that sends every request with the method the caller gave.
MethodAsGiven(verb, method) == method

\* The method a verb function leaves in the options it hands to fetchData: get
\* leaves what the caller gave, the others assign their own.
VerbMethod(verb, method) ==
  CASE verb = "get" -> method
    [] verb = "post" -> "POST"
    [] verb = "put" -> "PUT"
    [] verb = "patch" -> "PATCH"
    [] verb = "_delete" -> "DELETE"

Methods == {"unset"}
Urls == {"/a", "/b"}
HeaderSets == {"h1", "h2"}
Bodies == {"none", "json", "FormData"}
CacheIds == {"none", "orders"}
StaleHooks == {"absent", "returns"}
SuccessHooks == {"absent", "returns"}
\* The call-level processResponse: absent, one that returns a response, one
\* that returns nothing.
ResponseProcessors == {"absent", "returns", "returnsUndefined"}
\* The label option of a call: not given, or a label of its own.
Labels == {"unset", "load items"}
\* The error listeners subscribed when an error event is emitted, in their
\* order of subscription, each by what it does when called.
EventsQueues == {<<>>, <<"returns", "returns">>, <<"throws", "returns">>}

\* The request options a caller may pass (RequestOptions), the method left
\* to the verb function. The second header set, the second url and the
\* cacheId each vary on the request without a body to the first url;
\* onServerSuccess is given with every cacheId and varies on that request.
RequestOptions ==
  {d \in [method: Methods, url: Urls, headers: HeaderSets, data: Bodies,
          cacheId: CacheIds, getStaleWhileRevalidate: StaleHooks,
          onServerSuccess: SuccessHooks, processResponse: ResponseProcessors,
          label: Labels] :
     /\ d.label # "unset" => d.headers = "h2"
     /\ d.cacheId # "none" => d.onServerSuccess = "returns"
     /\ d.onServerSuccess = "returns" =>
          /\ d.headers = "h1"
          /\ d.url = "/a" \/ d.processResponse = "returnsUndefined"
     /\ d.onServerSuccess = "returns" => d.data = "none" \/ d.cacheId # "none"
     /\ d.data # "none" =>
          /\ d.headers = "h1" /\ d.url = "/a"
          /\ d.cacheId = "none" \/ d.data = "json"
     /\ d.cacheId = "none" => d.getStaleWhileRevalidate = "absent"
     /\ d.cacheId # "none" => d.headers = "h1"
     /\ d.url = "/b" => d.headers = "h1" /\ d.cacheId = "none"
     /\ d.processResponse # "absent" => d.url = "/b"}

\* The calls made of each verb function: get without a body, post with one,
\* put and patch with a JSON body, _delete of the plain request.
IsRequest(verb, d) ==
  CASE verb = "get" -> d.data = "none"
    [] verb = "post" -> d.data # "none"
    [] verb \in {"put", "patch"} -> d.data = "json"
    [] verb = "_delete" ->
         /\ d.data = "none" /\ d.url = "/a" /\ d.headers = "h1"
         /\ d.cacheId = "none" /\ d.onServerSuccess = "absent"

\* A value of a response body field: undefined, a string or an array.
Undefined == [type |-> "undefined", text |-> "", items |-> <<>>]
String(text) == [type |-> "string", text |-> text, items |-> <<>>]
Array(items) == [type |-> "array", text |-> "", items |-> items]
\* The elements of such arrays: strings, numbers, objects with a message.
Element(type, text) == [type |-> type, text |-> text]

\* err.response.data: none, or a body with its message and errors fields.
NoData == [present |-> FALSE, message |-> Undefined, errors |-> Undefined]
Data(message, errors) == [present |-> TRUE, message |-> message, errors |-> errors]

\* What the transport can fail with (AxiosError): with a response (status and
\* response.data) or without one.
NoError == [response |-> FALSE, status |-> 0, data |-> NoData, message |-> ""]
TransportErrors ==
  {[response |-> TRUE, status |-> 503, data |-> Data(String("Server busy"), Undefined),
    message |-> "Request failed with status code 503"],
   [response |-> TRUE, status |-> 401,
    data |-> Data(String("Session expired"), Undefined),
    message |-> "Request failed with status code 401"],
   [response |-> FALSE, status |-> 0, data |-> NoData, message |-> "Network Error"]}
\* Failures with the other shapes of response.data: an array of messages, an
\* array of errors, neither, and an empty body.
ShapedTransportErrors ==
  {[response |-> TRUE, status |-> 422,
    data |-> Data(Array(<<Element("string", "Name required"), Element("number", "7"),
                          Element("string", "Email invalid")>>),
                  Array(<<Element("object", "ignored")>>)),
    message |-> "Request failed with status code 422"],
   [response |-> TRUE, status |-> 409,
    data |-> Data(Undefined, Array(<<Element("object", "Too short"),
                                     Element("object", "Too long")>>)),
    message |-> "Request failed with status code 409"],
   [response |-> TRUE, status |-> 404, data |-> Data(Undefined, Array(<<>>)),
    message |-> "Request failed with status code 404"],
   [response |-> TRUE, status |-> 502, data |-> NoData,
    message |-> "Request failed with status code 502"]}
CanceledError(message) ==
  [response |-> FALSE, status |-> 0, data |-> NoData, message |-> message]

\* What a run is bounded by: several calls of which shouldRetryRequest forces
\* few retries; one call, of any verb and failing in any way, of which it
\* forces many, with response transforms, error listeners and hooks that may
\* throw; or several gets, of which it forces few retries, of an adapter with
\* persisted default headers and a rotateHeaders hook, failing in one way.
Workloads ==
  {[calls |-> MaxCalls, forcedRetries |-> MaxConcurrentForcedRetries, rotates |-> FALSE,
    verbs |-> {"get", "post"}, errors |-> TransportErrors, hooks |-> FALSE],
   [calls |-> 1, forcedRetries |-> MaxForcedRetries, rotates |-> FALSE,
    verbs |-> Verbs, errors |-> TransportErrors \cup ShapedTransportErrors,
    hooks |-> TRUE],
   [calls |-> MaxCalls, forcedRetries |-> MaxConcurrentForcedRetries, rotates |-> TRUE,
    verbs |-> {"get"}, errors |-> {e \in TransportErrors : e.status = 503},
    hooks |-> FALSE]}

\* ------------------------------------------------------------------ headers
\* A header mapping is a function from some header names to values.
NoHeaders == <<>>
HeaderNames == {"authorization", "x-session"}

\* Object.assign({}, a, b) / {...a, ...b}: b overrides a key by key.
Merge(a, b) ==
  [k \in DOMAIN a \cup DOMAIN b |-> IF k \in DOMAIN b THEN b[k] ELSE a[k]]

\* The headers option of a call: none, or an authorization of its own.
CallHeaders(h) == IF h = "h2" THEN [k \in {"authorization"} |-> "mine"] ELSE NoHeaders

\* What rotateHeaders can return: undefined (nothing to assign) or new headers.
RotatedHeaders ==
  {NoHeaders, [k \in {"authorization"} |-> "t2"], [k \in {"x-session"} |-> "s1"]}

\* StorageManager.get: null, or the mapping persisted under the storage key.
NoEntry == [present |-> FALSE, value |-> NoHeaders]
Entry(headers) == [present |-> TRUE, value |-> headers]
PersistedAtStart == {NoEntry, Entry([k \in {"authorization"} |-> "t1"])}

CachedData == "cached rows"
ServerData == "server rows"

VARIABLES
  workload,       \* the bounds of this run
  config,         \* APIAdapterConfiguration
  calls,          \* the calls made so far, in order
  waiters,        \* the promise of each call
  requestQueue,   \* fingerprint -> calls waiting on it
  pipe,           \* the orchestrator run each call started (if it created its group)
  pendingRequestCancelTokenSources,
  forced,         \* how often shouldRetryRequest has answered true
  defaultRequestHeaders,
  storage         \* the entry of StorageManager under defaultRequestHeadersStorageKey

vars == <<workload, config, calls, waiters, requestQueue, pipe,
          pendingRequestCancelTokenSources, forced, defaultRequestHeaders, storage>>

Range(s) == {s[i] : i \in 1..Len(s)}

\* ------------------------------------------------------------- fingerprint
\* queueRequest: the hashed copy of the options, a FormData body replaced by
\* the clock. fetchData has taken headers, label, cacheId and the per-call
\* hooks out of the options before.
HashableRequestOptions(d, t) ==
  [method |-> d.method, url |-> d.url,
   form |-> d.data = "FormData",
   data |-> IF d.data = "FormData" THEN "" ELSE d.data,
   stamp |-> IF d.data = "FormData" THEN t ELSE 0]


\* --------------------------------------------------------------- promises
Pending == [state |-> "pending", kind |-> "", body |-> ""]
Resolved(kind, body) == [state |-> "resolved", kind |-> kind, body |-> body]
Rejected(kind, body) == [state |-> "rejected", kind |-> kind, body |-> body]

\* The run of the orchestrator callback a call started; pc "none" for a call
\* that joined a group. headers are the headers of the attempt in flight;
\* attempts, lookup, staleSeen, everForced, transient, cacheWrite and notified
\* (the calls of onServerSuccess) record what the run did.
NoPipe ==
  [pc |-> "none", retryCount |-> 0, err |-> NoError, attempts |-> 0,
   lookup |-> "", staleSeen |-> "", everForced |-> FALSE, transient |-> TRUE,
   headers |-> NoHeaders, cacheWrite |-> "", notified |-> 0,
   response |-> "", controller |-> "", staleHook |-> "", thrownBy |-> "",
   events |-> [subscribed |-> 0, called |-> 0, completed |-> TRUE],
   settled |-> <<>>, withCredentials |-> FALSE]

\* --------------------------------------------- the deduplication queue
\* A settlement that reaches the first waiter of the group only.
SettledFirstWaiter(queue, ws, requestKey, payload) ==
  IF requestKey \in DOMAIN queue /\ Len(queue[requestKey]) > 0
  THEN [c \in DOMAIN ws |->
          IF c = queue[requestKey][1] /\ ws[c].state = "pending"
          THEN payload ELSE ws[c]]
  ELSE ws

\* A settlement that, finding no group, settles whoever is still waiting.
SettledWhoeverWaits(queue, ws, requestKey, payload) ==
  [c \in DOMAIN ws |->
     IF ws[c].state = "pending" /\ (requestKey \in DOMAIN queue => c \in Range(queue[requestKey]))
     THEN payload ELSE ws[c]]

\* A settlement that calls the waiters of the group last in, first out.
Reversed(queue, requestKey) ==
  IF requestKey \in DOMAIN queue
  THEN [i \in 1..Len(queue[requestKey]) |->
          queue[requestKey][Len(queue[requestKey]) + 1 - i]]
  ELSE <<>>

\* requestQueue[requestKey].forEach(...) of resolveRequest / rejectRequest:
\* the waiters whose resolve / reject is called, in the order of the calls.
SettlementOrder(queue, requestKey) ==
  IF requestKey \in DOMAIN queue /\ Len(queue[requestKey]) > 0
  THEN queue[requestKey]
  ELSE <<>>

\* The run r after it has called resolve or reject.
Settling(r, queue, requestKey) ==
  [r EXCEPT !.settled = @ \o SettlementOrder(queue, requestKey)]

\* resolveRequest / rejectRequest: every waiter of the group gets the same
\* payload, then the group is deleted; nothing happens without a group.
SettledWaiters(queue, ws, requestKey, payload) ==
  IF requestKey \in DOMAIN queue /\ Len(queue[requestKey]) > 0
  THEN [c \in DOMAIN ws |->
          IF c \in Range(queue[requestKey]) /\ ws[c].state = "pending"
          THEN payload ELSE ws[c]]
  ELSE ws

\* A settlement that leaves the group in the queue.
NotDequeued(queue, requestKey) == queue

\* dequeueRequest, as resolveRequest / rejectRequest call it.
DequeuedRequest(queue, requestKey) ==
  IF requestKey \in DOMAIN queue /\ Len(queue[requestKey]) > 0
  THEN [k \in DOMAIN queue \ {requestKey} |-> queue[k]]
  ELSE queue

\* ------------------------------------------- the cancellation registry
IndexOf(reg, h) ==
  IF \E i \in 1..Len(reg) : reg[i] = h
  THEN (CHOOSE i \in 1..Len(reg) : reg[i] = h /\ \A j \in 1..(i - 1) : reg[j] # h) - 1
  ELSE -1

\* Array.prototype.splice(start, 1): a negative start counts from the end.
Splice1(reg, start) ==
  LET at == IF start < 0
            THEN (IF Len(reg) + start < 0 THEN 0 ELSE Len(reg) + start) + 1
            ELSE start + 1
  IN  IF at > Len(reg) THEN reg
      ELSE [i \in 1..(Len(reg) - 1) |-> IF i < at THEN reg[i] ELSE reg[i + 1]]

\* pendingRequestCancelTokenSources.splice(indexOf(cancelTokenSource), 1)
Unregistered(reg, h) == Splice1(reg, IndexOf(reg, h))

\* A cascade that skips the oldest handle of the registry.
CancelTargetsButOldest(reg) == {reg[i] : i \in 2..Len(reg)}

\* cancelPendingRequests: the handles cancel() is called on, taken from a
\* copy of the registry.
CancelTargets(reg) == Range(reg)

\* CancelToken.cancel(message) on each of the handles hs: the transport rejects
\* the pending request of a cancelled token with that message; a request that
\* has completed is not touched.
AbortedPipes(pp, hs, message) ==
  [q \in DOMAIN pp |->
     IF pp[q].pc = "flight" /\ <<q, pp[q].retryCount>> \in hs
     THEN [pp[q] EXCEPT !.pc = "catch", !.err = CanceledError(message)]
     ELSE pp[q]]

\* --------------------------------------------------------- the error path
\* The `response` read in requestWillRetry is the const the awaited axios call
\* is still to initialise, not the response of the error: it holds nothing.
AwaitedResponse == [present |-> FALSE, status |-> 0]

\* A retry decision that retries every failure up to one retry past the cap.
RequestWillRetryPastCap(shouldRetryRequest, response, retryCount) ==
  shouldRetryRequest \/ retryCount <= MAX_REQUEST_RETRY_COUNT

RequestWillRetry(shouldRetryRequest, response, retryCount) ==
  \/ shouldRetryRequest
  \/ /\ response.present
     /\ response.status \notin FAILED_REQUEST_RETRY_STATUS_BLACKLIST
     /\ retryCount < MAX_REQUEST_RETRY_COUNT

\* /request\sfailed/gi on the messages the transport produces here.
MatchesRequestFailed(message) ==
  message \in {"Request failed with status code 503",
               "Request failed with status code 401",
               "Request failed with status code 422",
               "Request failed with status code 409",
               "Request failed with status code 404",
               "Request failed with status code 502"}

\* Array.prototype.join(separator) on strings.
RECURSIVE Join(_, _)
Join(texts, separator) ==
  IF Len(texts) = 0 THEN ""
  ELSE IF Len(texts) = 1 THEN texts[1]
  ELSE texts[1] \o separator \o Join(Tail(texts), separator)

Texts(items) == [i \in 1..Len(items) |-> items[i].text]

IsString(element) == element.type = "string"

\* A message extraction that knows the string form of response.data.message only.
ServerMessageOfStringOnly(err) ==
  IF err.data.message.type = "string"
  THEN err.data.message.text
  ELSE "Something went wrong"

\* The server side error message of an error that carries response data.
ServerMessage(err) ==
  LET data == err.data
  IN  IF data.message.type = "string"
      THEN data.message.text
      ELSE IF data.message.type = "array"
      THEN Join(Texts(SelectSeq(data.message.items, IsString)), "\n")
      ELSE IF data.errors.type = "array" /\ Len(data.errors.items) > 0
      THEN Join(Texts(data.errors.items), "\n")
      ELSE "Something went wrong"

HasResponseData(err) == err.response /\ err.data.present

IsExpiredSession(err) ==
  HasResponseData(err) /\ ServerMessage(err) \in EXPIRED_SESSION_ERROR_MESSAGES

FailedWithMessage(label, message) ==
  "Error: '" \o label \o "' failed with message \"" \o message \o "\""

\* An error message that formats a session-expiry phrase like any server message.
ErrorMessageAlwaysFormatted(err, label) ==
  IF HasResponseData(err)
  THEN FailedWithMessage(label, ServerMessage(err))
  ELSE IF err.message # "" /\ ~MatchesRequestFailed(err.message)
       THEN FailedWithMessage(label, err.message)
       ELSE "Error: '" \o label \o "' failed. Something went wrong"

ErrorMessage(err, label) ==
  IF HasResponseData(err)
  THEN IF ServerMessage(err) \in EXPIRED_SESSION_ERROR_MESSAGES
       THEN ServerMessage(err)
       ELSE FailedWithMessage(label, ServerMessage(err))
  ELSE IF err.message # "" /\ ~MatchesRequestFailed(err.message)
       THEN FailedWithMessage(label, err.message)
       ELSE "Error: '" \o label \o "' failed. Something went wrong"


\* A run that goes on to write the cache after its handler has finished.
EndedInCacheWrite(r, pc) == [r EXCEPT !.pc = "cacheWrite"]

\* A run that goes on waiting for its transport after its handler has finished.
NeverEnded(r, pc) == [r EXCEPT !.pc = "flight"]

\* A run that has returned or thrown keeps no locals: only how it ended and
\* what it has done.
Ended(r, pc) ==
  [NoPipe EXCEPT !.pc = pc, !.lookup = r.lookup, !.staleSeen = r.staleSeen,
                 !.cacheWrite = r.cacheWrite, !.notified = r.notified,
                 !.controller = r.controller, !.staleHook = r.staleHook,
                 !.thrownBy = r.thrownBy, !.events = r.events, !.settled = r.settled]

\* ------------------------------------------------------ default headers
\* setDefaultRequestHeaders: the persisted entry, if any, is assigned onto the
\* default headers.
LoadedHeaders(headers, entry) ==
  IF entry.present THEN Merge(headers, entry.value) ELSE headers

\* A patch that replaces the default headers by the new ones.
ReplacedHeaders(defaults, headers) == headers

\* patchDefaultRequestHeaders(headers): the default headers after it.
PatchedHeaders(defaults, headers) == Merge(defaults, headers)

\* A clearing that deletes no key.
KeptHeaders(defaults) == defaults

\* clearDefaultRequestHeaders: every key is deleted.
ClearedHeaders(defaults) == NoHeaders

\* The headers option of the axios call: {...defaultRequestHeaders, ...headers}.
\* Headers in which the default headers override those of the call.
DefaultsOverride(defaults, d) == Merge(CallHeaders(d.headers), defaults)

\* headers: { ...defaultRequestHeaders, ...headers } of the axios call.
RequestHeaders(defaults, d) == Merge(defaults, CallHeaders(d.headers))

\* ------------------------------------------------------------------- Init
Init ==
  /\ workload \in Workloads
  /\ config \in [preProcessResponseErrorMessages: BOOLEAN, cache: BOOLEAN]
  /\ calls = <<>>
  /\ waiters = <<>>
  /\ requestQueue = <<>>
  /\ pipe = <<>>
  /\ pendingRequestCancelTokenSources = <<>>
  /\ forced = 0
  /\ storage \in (IF workload.rotates THEN PersistedAtStart ELSE {NoEntry})
  /\ defaultRequestHeaders = LoadedHeaders(NoHeaders, storage)

\* ----------------------------------------------------------- the pipeline
IsCacheableRead(d) ==
  d.cacheId # "none" /\ config.cache /\ d.method \in {"unset", "get", "GET"}

\* The inner fetchData(retryCount) up to its await: a new cancel token source
\* is pushed on the registry and the transport is called.
AttemptStarted(r, retryCount, headers) ==
  [r EXCEPT !.pc = "flight", !.retryCount = retryCount, !.attempts = @ + 1,
            !.headers = headers, !.withCredentials = TRUE]

\* The orchestrator callback of queueRequest up to its first await.
CallbackStarted(d) ==
  IF IsCacheableRead(d)
  THEN [NoPipe EXCEPT !.pc = "cache"]
  ELSE AttemptStarted(NoPipe, 0, RequestHeaders(defaultRequestHeaders, d))

\* const { label = 'operation', ... } = inputOptions
LabelOf(d) == IF d.label = "unset" THEN DefaultLabel ELSE d.label

\* Options taken from the call that was made last.
LatestOptions(cs, p) == cs[Len(cs)].options

\* The options the orchestrator callback of call p closes over: those
\* destructured by the fetchData call that created the group.
CallbackOptions(cs, p) == cs[p].options

\* A queue that finds only the groups that have been joined before.
HasJoinedGroup(queue, requestId) ==
  requestId \in DOMAIN queue /\ Len(queue[requestId]) > 1

\* A queue that never finds a group to join.
HasNoPendingGroup(queue, requestId) == FALSE

\* queueRequest: the branch on requestQueue[requestId].
HasPendingGroup(queue, requestId) == requestId \in DOMAIN queue

\* get / post / put / patch / _delete (verb) called with options o, Date.now()
\* reading t: the verb function sets the method and calls fetchData, where the
\* promise is created and the call is queued; the first call of a fingerprint
\* runs the callback.
FetchData(verb, o, t) ==
  /\ Len(calls) < workload.calls
  /\ verb \in workload.verbs
  /\ IsRequest(verb, o)
  /\ o.processResponse # "absent" => workload.hooks
  /\ o.data # "none" /\ o.cacheId # "none" => workload.hooks
  /\ LET c == Len(calls) + 1
         d == [o EXCEPT !.method = VerbMethod(verb, @)]
         requestId == HashableRequestOptions(d, t)
         joins == HasPendingGroup(requestQueue, requestId)
         r == IF joins THEN NoPipe ELSE CallbackStarted(d)
     IN  /\ calls' = Append(calls, [verb |-> verb, options |-> d,
                                    requestId |-> requestId,
                                    existed |-> requestId \in DOMAIN requestQueue,
                                    group |-> IF requestId \in DOMAIN requestQueue
                                              THEN requestQueue[requestId][1] ELSE c])
         /\ waiters' = Append(waiters, Pending)
         /\ requestQueue' =
              IF joins
              THEN [requestQueue EXCEPT ![requestId] = Append(@, c)]
              ELSE [k \in DOMAIN requestQueue \cup {requestId} |->
                      IF k = requestId THEN <<c>> ELSE requestQueue[k]]
         /\ pipe' = Append(pipe, r)
         /\ pendingRequestCancelTokenSources' =
              IF r.pc = "flight"
              THEN Append(pendingRequestCancelTokenSources, <<c, 0>>)
              ELSE pendingRequestCancelTokenSources
         /\ UNCHANGED <<workload, config, forced, defaultRequestHeaders, storage>>

\* A cache check that never ends the callback, and one that a stale entry ends too.
SettlesFromCacheNever(found) == FALSE
SettlesFromCacheAlsoStale(found) == found \in {"fresh", "stale"}

\* The cached entry that ends the callback: one that is found and not stale.
SettlesFromCache(found) == found = "fresh"

\* A stale hook whose exception ends the callback.
StaleHookEndsWhenItThrows(outcome) == outcome = "throws"

\* try { getStaleWhileRevalidate(data) } catch (err) { console.error(err) }:
\* whatever the hook does, the callback goes on.
StaleHookEnds(outcome) == FALSE

\* getCachedData returns: no entry, a fresh entry, a stale entry, or it fails;
\* staleHook is what getStaleWhileRevalidate does when it is called.
CacheReturns(p, found, staleHook) ==
  /\ p \in DOMAIN pipe
  /\ pipe[p].pc = "cache"
  /\ LET d == CallbackOptions(calls, p)
         r == [pipe[p] EXCEPT !.lookup = found]
         hookCalled == found = "stale" /\ d.getStaleWhileRevalidate # "absent"
         seen == [r EXCEPT !.staleSeen = IF hookCalled THEN CachedData ELSE @,
                           !.staleHook = IF hookCalled THEN staleHook ELSE @]
     IN  /\ staleHook = "throws" => hookCalled /\ workload.hooks
         /\ CASE found # "rejects" /\ SettlesFromCache(found) ->
                /\ pipe' = [pipe EXCEPT ![p] =
                     Ended(Settling(r, requestQueue, calls[p].requestId), "done")]
                /\ waiters' = SettledWaiters(requestQueue, waiters, calls[p].requestId,
                                             Resolved("cached", CachedData))
                /\ requestQueue' = DequeuedRequest(requestQueue, calls[p].requestId)
                /\ UNCHANGED pendingRequestCancelTokenSources
           [] found = "rejects" ->
                /\ pipe' = [pipe EXCEPT ![p] =
                              Ended([r EXCEPT !.thrownBy = "getCachedData"], "crashed")]
                /\ UNCHANGED <<waiters, requestQueue, pendingRequestCancelTokenSources>>
           [] found \notin {"rejects", "fresh"} /\ hookCalled /\ StaleHookEnds(staleHook) ->
                /\ pipe' = [pipe EXCEPT ![p] =
                              Ended([seen EXCEPT !.thrownBy = "getStaleWhileRevalidate"],
                                    "crashed")]
                /\ UNCHANGED <<waiters, requestQueue, pendingRequestCancelTokenSources>>
           [] OTHER ->
                /\ pipe' = [pipe EXCEPT ![p] =
                     AttemptStarted(seen, 0, RequestHeaders(defaultRequestHeaders, d))]
                /\ pendingRequestCancelTokenSources' =
                     Append(pendingRequestCancelTokenSources, <<p, 0>>)
                /\ UNCHANGED <<waiters, requestQueue>>
  /\ UNCHANGED <<workload, config, calls, forced, defaultRequestHeaders, storage>>

\* The transport answers the attempt in flight with a response.
TransportResponds(p) ==
  /\ p \in DOMAIN pipe
  /\ pipe[p].pc = "flight"
  /\ pipe' = [pipe EXCEPT ![p].pc = "then"]
  /\ UNCHANGED <<workload, config, calls, waiters, requestQueue,
                 pendingRequestCancelTokenSources, forced, defaultRequestHeaders,
                 storage>>

\* The transport fails the attempt in flight.
TransportFails(p, err) ==
  /\ p \in DOMAIN pipe
  /\ err \in workload.errors
  /\ pipe[p].pc = "flight"
  /\ pipe' = [pipe EXCEPT ![p].pc = "catch", ![p].err = err]
  /\ UNCHANGED <<workload, config, calls, waiters, requestQueue,
                 pendingRequestCancelTokenSources, forced, defaultRequestHeaders,
                 storage>>

\* cancelRequest of the controller handed to getRequestController, called
\* while its attempt is in flight.
CancelRequest(p) ==
  /\ p \in DOMAIN pipe
  /\ pipe[p].pc = "flight"
  /\ pipe' = AbortedPipes(pipe, {<<p, pipe[p].retryCount>>},
                          CANCELLED_API_REQUEST_MESSAGE)
  /\ UNCHANGED <<workload, config, calls, waiters, requestQueue,
                 pendingRequestCancelTokenSources, forced, defaultRequestHeaders,
                 storage>>

\* A success path that does not call onServerSuccess.
NotNotified(r, d) == r

\* onServerSuccess && onServerSuccess(response), then resolve(response).
Notified(r, d) ==
  [r EXCEPT !.notified = IF d.onServerSuccess # "absent" THEN @ + 1 ELSE @]

\* What the transforms return: the controller-level one a response made of the
\* one it is given, the call-level one a response made of the one it is given
\* or nothing.
ControllerProcessed(response) == "controller(" \o response \o ")"
CallProcessed(processResponse, response) ==
  IF processResponse = "returnsUndefined" THEN "" ELSE "call(" \o response \o ")"

\* The then-handler of the axios call: the value of `response` after the await.
\* controller tells whether RequestController.processResponse is set.
ProcessedResponse(controller, processResponse, response) ==
  LET requestControllerResponse ==
        IF controller # "absent" THEN ControllerProcessed(response) ELSE response
  IN  IF processResponse # "absent"
      THEN CallProcessed(processResponse, requestControllerResponse)
      ELSE response

\* The then-handler of the axios call and what follows the await. Without a
\* response nothing more is done. With one, the handle is removed, the
\* headers RequestController.rotateHeaders returns (rotated) are patched onto
\* the default headers and persisted, and, for a request with a cacheId and a
\* configured cache, the response data is written to the cache; otherwise
\* onServerSuccess is called (hookThrows: it throws) and the group is resolved.
ThenRuns(p, rotated, controller, hookThrows) ==
  /\ p \in DOMAIN pipe
  /\ pipe[p].pc = "then"
  /\ ~workload.rotates => rotated = NoHeaders
  /\ controller # "absent" \/ hookThrows => workload.hooks
  /\ LET d == CallbackOptions(calls, p)
         response == ProcessedResponse(controller, d.processResponse, ServerData)
         r == [pipe[p] EXCEPT !.controller = controller]
         writes == d.cacheId # "none" /\ config.cache
     IN  IF response = ""
         THEN /\ pipe' = [pipe EXCEPT ![p] = Ended(r, "returned")]
              /\ rotated = NoHeaders /\ ~hookThrows
              /\ UNCHANGED <<waiters, requestQueue, pendingRequestCancelTokenSources,
                             defaultRequestHeaders, storage>>
         ELSE /\ pendingRequestCancelTokenSources' =
                   Unregistered(pendingRequestCancelTokenSources,
                                <<p, pipe[p].retryCount>>)
              /\ IF workload.rotates
                 THEN /\ defaultRequestHeaders' =
                           PatchedHeaders(defaultRequestHeaders, rotated)
                      /\ storage' = Entry(defaultRequestHeaders')
                 ELSE UNCHANGED <<defaultRequestHeaders, storage>>
              /\ hookThrows => d.onServerSuccess # "absent" /\ ~writes
              /\ IF writes
                 THEN /\ pipe' = [pipe EXCEPT ![p] =
                                    [r EXCEPT !.pc = "cacheWrite", !.response = response]]
                      /\ UNCHANGED <<waiters, requestQueue>>
                 ELSE IF hookThrows
                 THEN /\ pipe' = [pipe EXCEPT ![p] =
                            Ended([Notified(r, d) EXCEPT !.thrownBy = "onServerSuccess"],
                                  "crashed")]
                      /\ UNCHANGED <<waiters, requestQueue>>
                 ELSE /\ pipe' = [pipe EXCEPT ![p] =
                            Ended(Settling(Notified(r, d), requestQueue,
                                           calls[p].requestId), "done")]
                      /\ waiters' = SettledWaiters(requestQueue, waiters,
                                                   calls[p].requestId,
                                                   Resolved("response", response))
                      /\ requestQueue' = DequeuedRequest(requestQueue,
                                                         calls[p].requestId)
  /\ UNCHANGED <<workload, config, calls, forced>>

\* A cache write whose failure rejects the group.
CacheWriteMustSucceed(stored, response) ==
  IF stored THEN Resolved("response", response) ELSE Rejected("Error", "cache")

\* What the group is settled with after cacheData(...).catch(...): the
\* response, whether the write was stored or failed.
CacheWriteSettlement(stored, response) == Resolved("response", response)

\* cacheData returns or fails (the failure is swallowed); onServerSuccess is
\* called (hookThrows: it throws) and the group is resolved.
CacheWriteReturns(p, stored, hookThrows) ==
  /\ p \in DOMAIN pipe
  /\ pipe[p].pc = "cacheWrite"
  /\ hookThrows => CallbackOptions(calls, p).onServerSuccess # "absent" /\ workload.hooks
  /\ LET r == Notified([pipe[p] EXCEPT
                          !.cacheWrite = IF stored THEN "stored" ELSE "failed"],
                       CallbackOptions(calls, p))
     IN  IF hookThrows
         THEN /\ pipe' = [pipe EXCEPT ![p] =
                            Ended([r EXCEPT !.thrownBy = "onServerSuccess"], "crashed")]
              /\ UNCHANGED <<waiters, requestQueue>>
         ELSE /\ pipe' = [pipe EXCEPT ![p] =
                   Ended(Settling(r, requestQueue, calls[p].requestId), "done")]
              /\ waiters' = SettledWaiters(requestQueue, waiters, calls[p].requestId,
                                           CacheWriteSettlement(stored, pipe[p].response))
              /\ requestQueue' = DequeuedRequest(requestQueue, calls[p].requestId)
  /\ UNCHANGED <<workload, config, calls, pendingRequestCancelTokenSources, forced,
                 defaultRequestHeaders, storage>>

\* A logout that also cancels every registered attempt and empties the registry.
LogoutThatCancels ==
  /\ defaultRequestHeaders' = ClearedHeaders(defaultRequestHeaders)
  /\ storage' = NoEntry
  /\ pipe' = AbortedPipes(pipe, Range(pendingRequestCancelTokenSources),
                          CANCELLED_API_REQUEST_MESSAGE)
  /\ pendingRequestCancelTokenSources' = <<>>
  /\ UNCHANGED <<workload, config, calls, waiters, requestQueue, forced>>

\* logout(): clearDefaultRequestHeaders deletes every default header and
\* removes the persisted entry.
Logout ==
  /\ defaultRequestHeaders' = ClearedHeaders(defaultRequestHeaders)
  /\ storage' = NoEntry
  /\ UNCHANGED <<workload, config, calls, waiters, requestQueue, pipe,
                 pendingRequestCancelTokenSources, forced>>

\* eventsQueue.error.forEach(listener => listener(...)): the listeners are
\* called in order until one throws.
RECURSIVE CalledListeners(_)
CalledListeners(listeners) ==
  IF Len(listeners) = 0 THEN 0
  ELSE IF Head(listeners) = "throws" THEN 1
  ELSE 1 + CalledListeners(Tail(listeners))

\* Whether forEach completes: it does unless a listener throws.
RECURSIVE EmissionCompletes(_)
EmissionCompletes(listeners) ==
  IF Len(listeners) = 0 THEN TRUE
  ELSE Head(listeners) # "throws" /\ EmissionCompletes(Tail(listeners))

Emitted(listeners) ==
  [subscribed |-> Len(listeners), called |-> CalledListeners(listeners),
   completed |-> EmissionCompletes(listeners)]

\* The catch-handler of the axios call. shouldRetryRequest is the answer of
\* RequestController.shouldRetryRequest (FALSE also when the hook is absent);
\* listeners are the error listeners subscribed when the event is emitted;
\* uninitialised is what reading the const `response` before its initialisation does in the
\* build at hand: it throws a ReferenceError, or yields undefined where const
\* is compiled to var.
CatchRuns(p, shouldRetryRequest, listeners, uninitialised) ==
  /\ p \in DOMAIN pipe
  /\ pipe[p].pc = "catch"
  /\ shouldRetryRequest => forced < workload.forcedRetries
  /\ listeners # <<>> => workload.hooks
  /\ forced' = IF shouldRetryRequest THEN forced + 1 ELSE forced
  /\ LET r == pipe[p]
         err == r.err
         h == <<p, r.retryCount>>
         seen == [r EXCEPT !.err = NoError,
                           !.everForced = @ \/ shouldRetryRequest,
                           !.transient = @ /\ err.response /\ err.status \notin
                                               FAILED_REQUEST_RETRY_STATUS_BLACKLIST]
         heard == [seen EXCEPT !.events = Emitted(listeners)]
     IN  IF ~shouldRetryRequest /\ uninitialised = "throws"
         THEN \* the handler throws: nobody handles the rejection of fetchData
              /\ listeners = <<>>
              /\ pipe' = [pipe EXCEPT ![p] =
                            Ended([seen EXCEPT !.thrownBy = "response"], "crashed")]
              /\ UNCHANGED <<waiters, requestQueue, pendingRequestCancelTokenSources>>
         ELSE IF ~heard.events.completed
         THEN \* a listener throws inside forEach, and so does the handler
              /\ pipe' = [pipe EXCEPT ![p] =
                            Ended([heard EXCEPT !.thrownBy = "listener"], "crashed")]
              /\ UNCHANGED <<waiters, requestQueue, pendingRequestCancelTokenSources>>
         ELSE
           LET requestWillRetry ==
                 RequestWillRetry(shouldRetryRequest, AwaitedResponse, r.retryCount)
               preProcess == config.preProcessResponseErrorMessages
               reg == IF preProcess
                      THEN Unregistered(pendingRequestCancelTokenSources, h)
                      ELSE pendingRequestCancelTokenSources
               expired == preProcess /\ IsExpiredSession(err)
               targets == IF expired THEN CancelTargets(reg) ELSE {}
               aborted == AbortedPipes(pipe, targets, AxiosCanceledMessage)
               payload == IF preProcess
                          THEN Rejected("Error", ErrorMessage(err, LabelOf(CallbackOptions(calls, p))))
                          ELSE Rejected("AxiosError", err.message)
           IN  /\ IF requestWillRetry
                  THEN /\ pipe' = [aborted EXCEPT ![p] =
                                     AttemptStarted(heard, r.retryCount + 1,
                                       RequestHeaders(defaultRequestHeaders,
                                                      CallbackOptions(calls, p)))]
                       /\ pendingRequestCancelTokenSources' =
                            Append(reg, <<p, r.retryCount + 1>>)
                       /\ UNCHANGED <<waiters, requestQueue>>
                  ELSE /\ pipe' = [aborted EXCEPT ![p] =
                            Ended(Settling(heard, requestQueue, calls[p].requestId),
                                  "done")]
                       /\ pendingRequestCancelTokenSources' = reg
                       /\ waiters' = SettledWaiters(requestQueue, waiters,
                                                    calls[p].requestId, payload)
                       /\ requestQueue' = DequeuedRequest(requestQueue,
                                                          calls[p].requestId)
  /\ UNCHANGED <<workload, config, calls, defaultRequestHeaders, storage>>

Next ==
  \/ \E verb \in Verbs, o \in RequestOptions, t \in 0..MaxClock :
       FetchData(verb, o, t)
  \/ \E p \in 1..MaxCalls, found \in {"null", "fresh", "stale", "rejects"},
        staleHook \in {"returns", "throws"} :
       CacheReturns(p, found, staleHook)
  \/ \E p \in 1..MaxCalls : TransportResponds(p)
  \/ \E p \in 1..MaxCalls, err \in TransportErrors \cup ShapedTransportErrors :
       TransportFails(p, err)
  \/ \E p \in 1..MaxCalls : CancelRequest(p)
  \/ \E p \in 1..MaxCalls, rotated \in RotatedHeaders,
        controller \in {"absent", "returns"}, hookThrows \in BOOLEAN :
       ThenRuns(p, rotated, controller, hookThrows)
  \/ \E p \in 1..MaxCalls, stored \in BOOLEAN, hookThrows \in BOOLEAN :
       CacheWriteReturns(p, stored, hookThrows)
  \/ \E p \in 1..MaxCalls, shouldRetryRequest \in BOOLEAN, listeners \in EventsQueues,
        uninitialised \in {"undefined", "throws"} :
       CatchRuns(p, shouldRetryRequest, listeners, uninitialised)
  \/ Logout

Spec == Init /\ [][Next]_vars

\* What the event loop and the collaborators do for the run of call p: the cache
\* and the transport answer, and the handlers that wait for them run.
Pipeline(p) ==
  \/ \E found \in {"null", "fresh", "stale", "rejects"},
        staleHook \in {"returns", "throws"} :
       CacheReturns(p, found, staleHook)
  \/ TransportResponds(p)
  \/ \E err \in TransportErrors \cup ShapedTransportErrors : TransportFails(p, err)
  \/ \E rotated \in RotatedHeaders, controller \in {"absent", "returns"},
        hookThrows \in BOOLEAN :
       ThenRuns(p, rotated, controller, hookThrows)
  \/ \E stored \in BOOLEAN, hookThrows \in BOOLEAN : CacheWriteReturns(p, stored, hookThrows)
  \/ \E shouldRetryRequest \in BOOLEAN, listeners \in EventsQueues,
        uninitialised \in {"undefined", "throws"} :
       CatchRuns(p, shouldRetryRequest, listeners, uninitialised)

\* The transport and every asynchronous collaborator eventually return or fail,
\* and a handler that can run eventually runs.
FairSpec == Spec /\ \A p \in 1..MaxCalls : WF_vars(Pipeline(p))


\* ------------------------------------------------------------------ claims
Calls == DOMAIN calls

Running(p) == pipe[p].pc \in {"cache", "flight", "then", "catch", "cacheWrite"}

\* The catch-handler of p has just run to its end or thrown.
CatchRan(p) == p \in Calls /\ pipe[p].pc = "catch" /\ pipe'[p].pc # "catch"

\* The catch-handler of p has just issued a new transport attempt.
Retried(p) ==
  /\ pipe'[p].pc = "flight"
  /\ pipe'[p].retryCount = pipe[p].retryCount + 1
  /\ pipe'[p].attempts = pipe[p].attempts + 1

IsStrictlyIncreasing(s) == \A i, j \in 1..Len(s) : i < j => s[i] < s[j]

\* C1: a call enqueued while a group with its fingerprint exists is appended
\* to that group and starts no orchestrator run and no transport attempt; the
\* callback runs exactly once per created group, for the call that created it.
C1_JoinedCallsStartNothing ==
  /\ \A c \in Calls :
       /\ calls[c].existed =>
            /\ pipe[c] = NoPipe
            /\ \A h \in Range(pendingRequestCancelTokenSources) : h[1] # c
            /\ calls[c].group < c
            /\ calls[calls[c].group].requestId = calls[c].requestId
       /\ ~calls[c].existed => pipe[c].pc # "none" /\ calls[c].group = c
       /\ waiters[c].state = "pending" /\ pipe[calls[c].group].pc # "crashed" =>
            /\ calls[c].requestId \in DOMAIN requestQueue
            /\ c \in Range(requestQueue[calls[c].requestId])
  /\ \A k \in DOMAIN requestQueue :
       /\ IsStrictlyIncreasing(requestQueue[k])
       /\ Len(requestQueue[k]) > 0
       /\ ~calls[requestQueue[k][1]].existed
       /\ \A i \in 2..Len(requestQueue[k]) :
            /\ calls[requestQueue[k][i]].existed
            /\ calls[requestQueue[k][i]].group = requestQueue[k][1]

C1_Witness ==
  \E c \in Calls :
     /\ calls[c].existed
     /\ waiters[c].state = "resolved"
     /\ waiters[c].kind = "response"

\* C2: the calls of one group are settled together, the same way and with the
\* identical value.
C2_GroupSettlesAlike ==
  \A c \in Calls : waiters[c] = waiters[calls[c].group]

C2_Witness ==
  \E c \in Calls :
     /\ calls[c].group # c
     /\ waiters[c].state = "rejected"
     /\ waiters[calls[c].group].state = "rejected"

\* C3: two calls that share a group agree on method, url, body and headers
\* (calls that differ in one of them, per-call headers included, are
\* dispatched apart).
C3_GroupSharesMethodUrlBodyHeaders ==
  \A c \in Calls :
     LET d == calls[c].options
         g == calls[calls[c].group].options
     IN  /\ d.method = g.method
         /\ d.url = g.url
         /\ d.data = g.data
         /\ d.headers = g.headers

\* C4: two calls with a FormData body never share a group, whatever the clock
\* reads when they are enqueued.
C4_FormDataNeverShared ==
  \A c \in Calls :
     calls[c].options.data = "FormData" => calls[c].group = c /\ pipe[c].pc # "none"

\* C5: a cache lookup that returns an entry that is not stale resolves the
\* group with the cached data and no transport attempt is made for it.
C5_FreshHitSettlesWithoutTransport ==
  \A p \in Calls :
     pipe[p].lookup = "fresh" =>
        /\ pipe[p].pc = "done"
        /\ pipe[p].attempts = 0
        /\ \A h \in Range(pendingRequestCancelTokenSources) : h[1] # p
        /\ \A c \in Calls :
             calls[c].group = p => waiters[c] = Resolved("cached", CachedData)

C5_Witness ==
  \E p \in Calls :
     /\ pipe[p].lookup = "fresh"
     /\ \E c \in Calls : c # p /\ calls[c].group = p /\ waiters[c].state = "resolved"

\* What a group can be rejected with after a transport failure.
FailureBodies ==
  {ErrorMessage(e, l) :
     l \in {DefaultLabel, "load items"},
     e \in TransportErrors \cup ShapedTransportErrors
           \cup {CanceledError(CANCELLED_API_REQUEST_MESSAGE),
                                CanceledError(AxiosCanceledMessage)}}
  \cup {e.message : e \in TransportErrors \cup ShapedTransportErrors}
  \cup {CANCELLED_API_REQUEST_MESSAGE, AxiosCanceledMessage}

\* C6: after a stale cache entry the stale hook has been given the stale
\* data, a transport attempt has been made, and the group is settled with the
\* outcome of the transport, never with the cached value.
C6_StaleRevalidates ==
  \A p \in Calls :
     pipe[p].lookup = "stale" =>
        /\ calls[p].options.getStaleWhileRevalidate # "absent" =>
             pipe[p].staleSeen = CachedData
        /\ pipe[p].pc \notin {"none", "cache"}
        /\ Running(p) => pipe[p].attempts >= 1
        /\ waiters[p].state = "resolved" => waiters[p] = Resolved("response", ServerData)
        /\ waiters[p].state = "rejected" =>
             /\ waiters[p].kind \in {"Error", "AxiosError"}
             /\ waiters[p].body \in FailureBodies
        /\ waiters[p].body # CachedData

C6_Witness ==
  \E p \in Calls :
     /\ pipe[p].lookup = "stale"
     /\ pipe[p].staleSeen = CachedData
     /\ waiters[p] = Resolved("response", ServerData)

\* C7: when shouldRetryRequest is absent or answers false, a failed attempt
\* is retried if and only if the failure carried a response whose status is
\* not in {400, 401, 500} and fewer than 2 retries have been made.
C7_DefaultRetryHeuristic ==
  [][\A p \in 1..MaxCalls :
       CatchRan(p) /\ forced' = forced =>
         (Retried(p) <=>
            /\ pipe[p].err.response
            /\ pipe[p].err.status \notin FAILED_REQUEST_RETRY_STATUS_BLACKLIST
            /\ pipe[p].retryCount < MAX_REQUEST_RETRY_COUNT)]_vars

\* C8 as stated: a request whose failures all carry a response with a status
\* outside {400, 401, 500} makes at most 3 transport attempts.
C8_AtMostThreeAttempts ==
  \A p \in Calls : pipe[p].transient => pipe[p].attempts <= 1 + MAX_REQUEST_RETRY_COUNT

\* C8 amended: a request of which shouldRetryRequest has forced no retry makes
\* at most 3 transport attempts.
C8_AtMostThreeAttemptsUnforced ==
  \A p \in Calls : ~pipe[p].everForced => pipe[p].attempts <= 1 + MAX_REQUEST_RETRY_COUNT

C8_Witness ==
  \E p \in Calls :
     /\ forced = 0
     /\ waiters[p] = Rejected("Error", FailedWithMessage(DefaultLabel, "Server busy"))

\* C9: whenever shouldRetryRequest answers true for a failed attempt, a new
\* transport attempt is issued with the retry count grown by one, whatever
\* the status and whether or not a response was received.
C9_ForcedRetryAlwaysIssued ==
  [][\A p \in 1..MaxCalls :
       CatchRan(p) /\ forced' = forced + 1 => Retried(p)]_vars

\* C10: when the message of a failed attempt is a session-expiry phrase,
\* every other handle in the registry is cancelled: every other attempt in
\* flight takes its failure path, as a cancellation.
C10_ExpiredSessionCancelsOthers ==
  [][\A p \in 1..MaxCalls :
       /\ CatchRan(p)
       /\ pipe'[p].pc # "crashed"
       /\ config.preProcessResponseErrorMessages
       /\ IsExpiredSession(pipe[p].err)
       => \A q \in Calls :
            q # p /\ pipe[q].pc = "flight" =>
              /\ pipe'[q].pc = "catch"
              /\ pipe'[q].err = CanceledError(AxiosCanceledMessage)]_vars

C10_Witness ==
  \E p, q \in Calls :
     /\ p # q
     /\ pipe[q].pc = "catch"
     /\ pipe[q].err = CanceledError(AxiosCanceledMessage)
     /\ waiters[p] = Rejected("Error", "Session expired")

\* The catch-handler of p has just run through the extraction of the error
\* message and found a session-expiry phrase.
DetectedExpiredSession(p) ==
  /\ CatchRan(p)
  /\ pipe'[p].pc # "crashed"
  /\ config.preProcessResponseErrorMessages
  /\ IsExpiredSession(pipe[p].err)

\* The error of a cancelled attempt.
IsCancellation(err) ==
  err \in {CanceledError(CANCELLED_API_REQUEST_MESSAGE), CanceledError(AxiosCanceledMessage)}

C12_ExpiredSessionNeverRetries ==
  [][\A p \in 1..MaxCalls :
       DetectedExpiredSession(p) =>
         /\ pipe'[p].pc = "done"
         /\ waiters'[p].state = "rejected"]_vars

\* C17: every cancelled attempt, cancelled by cancelRequest or by the cascade,
\* delivers a rejection with the standard 'Request Cancelled' message to its
\* group.
C17_CancelledSurfacesStandardMessage ==
  [][\A p \in 1..MaxCalls :
       CatchRan(p) /\ IsCancellation(pipe[p].err) =>
         /\ waiters'[p].state = "rejected"
         /\ waiters'[p].body \in
              {CANCELLED_API_REQUEST_MESSAGE,
               FailedWithMessage(LabelOf(calls[p].options),
                                 CANCELLED_API_REQUEST_MESSAGE)}]_vars

\* C18: after an attempt has been cancelled no further transport attempt is
\* issued for its group and the group is rejected.
C18_CancellationIsTerminal ==
  [][\A p \in 1..MaxCalls :
       CatchRan(p) /\ IsCancellation(pipe[p].err) =>
         /\ pipe'[p].pc = "done"
         /\ waiters'[p].state = "rejected"]_vars

\* The step of call p's run in which its cache write returns.
CacheWrote(p) == p \in Calls /\ pipe[p].pc = "cacheWrite" /\ pipe'[p].pc # "cacheWrite"

\* The success path of p has just run up to the cache write or to its end.
ThenRan(p) == p \in Calls /\ pipe[p].pc = "then" /\ pipe'[p].pc # "then"

\* after is before overridden key by key by headers.
IsOverriddenBy(before, headers, after) ==
  \A k \in HeaderNames :
     IF k \in DOMAIN headers
     THEN k \in DOMAIN after /\ after[k] = headers[k]
     ELSE /\ k \in DOMAIN after <=> k \in DOMAIN before
          /\ k \in DOMAIN before => after[k] = before[k]

\* C13: after a successful response with rotateHeaders configured the default
\* headers are the previous ones overridden key by key by what rotateHeaders
\* returned, every other key keeps its value, and the merged mapping is what
\* is persisted.
C13_RotationMerges ==
  [][\A p \in 1..MaxCalls :
       ThenRan(p) /\ workload.rotates =>
         /\ \E rotated \in RotatedHeaders :
              IsOverriddenBy(defaultRequestHeaders, rotated, defaultRequestHeaders')
         /\ storage' = Entry(defaultRequestHeaders')]_vars

C13_Witness ==
  /\ DOMAIN defaultRequestHeaders = HeaderNames
  /\ defaultRequestHeaders["authorization"] = "t1"
  /\ defaultRequestHeaders["x-session"] = "s1"
  /\ storage = Entry(defaultRequestHeaders)

\* C16: a failed cache write after a successful response does not change the
\* outcome: the group is resolved with the response, and the default headers,
\* rotated before the write, are left as they are.
C16_CacheWriteFailureIsSwallowed ==
  [][\A p \in 1..MaxCalls :
       p \in Calls /\ pipe[p].pc = "cacheWrite" /\ pipe'[p].pc # "cacheWrite" =>
         /\ pipe'[p].pc = "done"
         /\ pipe'[p].cacheWrite \in {"stored", "failed"}
         /\ \A c \in Calls :
              calls[c].group = p => waiters'[c] = Resolved("response", ServerData)
         /\ defaultRequestHeaders' = defaultRequestHeaders
         /\ storage' = storage]_vars

C16_Witness ==
  \E p \in Calls :
     /\ pipe[p].cacheWrite = "failed"
     /\ waiters[p] = Resolved("response", ServerData)
     /\ workload.rotates
     /\ storage.present

\* A step of logout() that changed something.
LogoutActed ==
  /\ pipe' = pipe /\ calls' = calls
  /\ <<defaultRequestHeaders, storage>>' # <<defaultRequestHeaders, storage>>

\* Call p has just started a transport attempt.
AttemptIssued(p) ==
  /\ p \in DOMAIN pipe'
  /\ pipe'[p].pc = "flight"
  /\ p \in DOMAIN pipe => pipe'[p].attempts = pipe[p].attempts + 1

\* C19: after logout() the default headers are empty and the persisted entry
\* is removed; a transport attempt started in that state carries the per-call
\* headers only.
C19_LogoutClearsHeaders ==
  [][/\ LogoutActed => defaultRequestHeaders' = NoHeaders /\ storage' = NoEntry
     /\ \A p \in 1..MaxCalls :
          AttemptIssued(p) /\ defaultRequestHeaders = NoHeaders /\ storage = NoEntry =>
            pipe'[p].headers = CallHeaders(calls'[p].options.headers)]_vars

C19_Witness ==
  /\ workload.rotates
  /\ defaultRequestHeaders = NoHeaders
  /\ storage = NoEntry
  /\ \E p, q \in Calls :
       /\ waiters[q] = Resolved("response", ServerData)
       /\ pipe[p].pc = "flight"
       /\ pipe[p].headers = CallHeaders(calls[p].options.headers)

\* C20: onServerSuccess is called once for a successful transport response,
\* not later than the group is resolved, and never when the group is settled
\* from a cache entry that is not stale or when the request fails.
C20_OnServerSuccessOncePerSuccess ==
  /\ [](\A p \in Calls :
          /\ pipe[p].notified <= 1
          /\ pipe[p].lookup = "fresh" => pipe[p].notified = 0
          /\ waiters[p].state = "rejected" => pipe[p].notified = 0
          /\ calls[p].options.onServerSuccess = "absent" => pipe[p].notified = 0
          /\ waiters[p].state = "resolved" /\ waiters[p].kind = "response"
               /\ ~calls[p].existed /\ calls[p].options.onServerSuccess # "absent"
             => pipe[p].notified = 1)
  /\ [][\A p \in 1..MaxCalls :
          /\ ThenRan(p) /\ calls[p].options.onServerSuccess # "absent"
             => \/ pipe'[p].pc = "cacheWrite" /\ pipe'[p].notified = 0
                \/ pipe'[p].notified = 1
          /\ CacheWrote(p) /\ calls[p].options.onServerSuccess # "absent"
             => pipe'[p].notified = 1]_vars

C20_Witness ==
  \E p \in Calls :
     /\ pipe[p].notified = 1
     /\ \E c \in Calls : c # p /\ calls[c].group = p /\ waiters[c].state = "resolved"

\* C14: provided the transport and the collaborators eventually answer, every
\* call is eventually resolved or rejected.
C14_EveryWaiterEventuallySettled ==
  \A p \in 1..MaxCalls :
     (p \in Calls) ~> (p \in Calls /\ waiters[p].state # "pending")

\* C15: after getCachedData has failed the request proceeds and its group is
\* eventually settled.
C15_FailedLookupStillSettles ==
  \A p \in 1..MaxCalls :
     (p \in Calls /\ pipe[p].lookup = "rejects")
       ~> (p \in Calls /\ waiters[p].state # "pending")

\* C21: each of get, post, put, patch and _delete hands its call to the one
\* queue and pipeline, get with the method left unset and the others with
\* POST, PUT, PATCH and DELETE.
C21_VerbsSetMethodAndShareThePipeline ==
  \A c \in Calls :
     /\ calls[c].verb \in Verbs
     /\ calls[c].options.method =
          (CASE calls[c].verb = "get" -> "unset"
             [] calls[c].verb = "post" -> "POST"
             [] calls[c].verb = "put" -> "PUT"
             [] calls[c].verb = "patch" -> "PATCH"
             [] calls[c].verb = "_delete" -> "DELETE")
     /\ calls[c].requestId.method = calls[c].options.method
     /\ c \in DOMAIN waiters /\ c \in DOMAIN pipe
     /\ calls[c].existed \/ pipe[c].pc # "none"

C21_Witness ==
  \E c \in Calls :
     /\ calls[c].verb = "_delete"
     /\ waiters[c].state = "resolved"
     /\ waiters[c].kind = "response"

\* The message the spec chooses for a failure with this status.
ChosenMessage(label, status) ==
  CASE status = 503 -> "Error: '" \o label \o "' failed with message \"Server busy\""
    [] status = 401 -> "Session expired"
    [] status = 422 ->
         "Error: '" \o label \o "' failed with message \"Name required\nEmail invalid\""
    [] status = 409 -> "Error: '" \o label \o "' failed with message \"Too short\nToo long\""
    [] status = 404 -> "Error: '" \o label \o "' failed with message \"Something went wrong\""
    [] status = 502 -> "Error: '" \o label \o "' failed. Something went wrong"
    [] status = 0 -> "Error: '" \o label \o "' failed with message \"Network Error\""

\* C22: the message of a failure with response data is response.data.message
\* when it is a string, else its string elements joined by newline when it is
\* an array, else the messages of a non-empty response.data.errors joined by
\* newline, else 'Something went wrong'; a failure without response data uses
\* the transport's message unless it matches 'request failed', when the
\* generic fallback is used.
C22_MessageIsChosenInOrder ==
  [][\A p \in 1..MaxCalls :
       /\ CatchRan(p)
       /\ pipe'[p].pc = "done"
       /\ config.preProcessResponseErrorMessages
       /\ pipe[p].err \in TransportErrors \cup ShapedTransportErrors
       => waiters'[p] =
            Rejected("Error", ChosenMessage(IF calls[p].options.label = "unset"
                                            THEN "operation"
                                            ELSE calls[p].options.label,
                                            pipe[p].err.status))]_vars

C22_Witness ==
  \E p \in Calls :
     waiters[p] = Rejected("Error", ChosenMessage("operation", 422))

\* The groups a call is a member of.
GroupsOf(c) == {k \in DOMAIN requestQueue : c \in Range(requestQueue[k])}

\* C23: every group is non-empty and holds unsettled waiters only, every
\* unsettled waiter is in exactly one group (the one of its fingerprint, once),
\* a settlement settles all the members of a group alike and deletes the group
\* in the same step, and the next call with that fingerprint creates a new
\* group and starts a new run.
C23_GroupsHoldExactlyTheUnsettledWaiters ==
  /\ [](/\ \A k \in DOMAIN requestQueue :
             /\ Len(requestQueue[k]) > 0
             /\ \A i, j \in 1..Len(requestQueue[k]) :
                  requestQueue[k][i] = requestQueue[k][j] => i = j
             /\ \A c \in Range(requestQueue[k]) :
                  c \in Calls /\ waiters[c].state = "pending" /\ calls[c].requestId = k
         /\ \A c \in Calls :
              IF waiters[c].state = "pending"
              THEN GroupsOf(c) = {calls[c].requestId}
              ELSE GroupsOf(c) = {})
  /\ [][/\ \A k \in DOMAIN requestQueue :
             \/ k \in DOMAIN requestQueue' /\ Range(requestQueue[k]) \subseteq Range(requestQueue'[k])
             \/ /\ k \notin DOMAIN requestQueue'
                /\ \A c, e \in Range(requestQueue[k]) :
                     waiters'[c].state # "pending" /\ waiters'[c] = waiters'[e]
        /\ \A c \in Calls :
             waiters[c].state = "pending" /\ waiters'[c].state # "pending"
             => calls[c].requestId \notin DOMAIN requestQueue'
        /\ Len(calls') > Len(calls) /\ ~calls'[Len(calls')].existed
           => /\ requestQueue'[calls'[Len(calls')].requestId] = <<Len(calls')>>
              /\ pipe'[Len(calls')].pc \in {"cache", "flight"}]_vars

C23_Witness ==
  \E c, e \in Calls :
     /\ c < e
     /\ calls[c].requestId = calls[e].requestId
     /\ waiters[c].state # "pending"
     /\ ~calls[e].existed
     /\ requestQueue[calls[e].requestId] = <<e>>
     /\ pipe[e].pc # "none"

\* The fingerprints that have no group: those of settled calls, and one that
\* no call has had.
DeletedGroups ==
  ({calls[c].requestId : c \in Calls}
     \cup {HashableRequestOptions(
             [method |-> "unset", url |-> "/never", headers |-> "h1", data |-> "none",
              cacheId |-> "none", getStaleWhileRevalidate |-> "absent",
              onServerSuccess |-> "absent", processResponse |-> "absent",
              label |-> "unset"], 0)})
  \ DOMAIN requestQueue

Payloads ==
  {Resolved("response", ServerData), Resolved("cache", CachedData),
   Rejected("Error", "Session expired"), Rejected("AxiosError", "Network Error")}

\* C24: resolveRequest and rejectRequest for a fingerprint whose group has been
\* deleted settle no waiter and leave the queue unchanged, so a settled waiter
\* is never settled again.
C24_SettlementIsIdempotent ==
  /\ [](\A k \in DeletedGroups, payload \in Payloads :
          /\ SettledWaiters(requestQueue, waiters, k, payload) = waiters
          /\ DequeuedRequest(requestQueue, k) = requestQueue)
  /\ [][\A c \in Calls : waiters[c].state # "pending" => waiters'[c] = waiters[c]]_vars

C24_Witness ==
  \E c, e \in Calls :
     /\ waiters[c].state # "pending"
     /\ calls[c].requestId \in DeletedGroups
     /\ waiters[e].state = "pending"

\* C25: a handle is in the registry from the start of its attempt until the
\* attempt has settled, on success and on failure and in every configuration;
\* so the registry is empty whenever no request is being processed.
C25_RegistryEmptyWhenIdle ==
  (\A p \in Calls : pipe[p].pc \in {"none", "done"})
  => pendingRequestCancelTokenSources = <<>>

\* The transforms that are configured, applied in the order the spec fixes.
Composed(controller, processResponse, response) ==
  LET first == IF controller = "returns" THEN ControllerProcessed(response) ELSE response
  IN  IF processResponse # "absent" THEN CallProcessed(processResponse, first) ELSE first

\* C26: after a transport success the group is resolved with the call-level
\* processResponse applied to the controller-level processResponse applied to
\* the raw response, each transform being skipped when it is not configured.
C26_ResolvedWithTheComposition ==
  [][\A p \in 1..MaxCalls :
       (ThenRan(p) \/ CacheWrote(p)) /\ pipe'[p].pc = "done"
       => waiters'[p] =
            Resolved("response",
                     Composed(pipe'[p].controller, calls[p].options.processResponse,
                              ServerData))]_vars

\* C27: whatever the transforms return, the step that follows a successful
\* transport response removes the attempt's handle and resolves the group (or
\* goes on to write the cache first).
C27_SuccessAlwaysSettles ==
  [][\A p \in 1..MaxCalls :
       ThenRan(p) /\ pipe'[p].thrownBy # "onServerSuccess"
       => /\ \A i \in 1..Len(pendingRequestCancelTokenSources') :
               pendingRequestCancelTokenSources'[i][1] # p
          /\ \/ pipe'[p].pc = "cacheWrite"
             \/ waiters'[p].state = "resolved"]_vars

\* C28: once onServerSuccess has been called after a successful transport
\* response, the group is resolved with the response, whether the hook
\* returns or throws.
C28_OnServerSuccessIsBestEffort ==
  [][\A p \in 1..MaxCalls :
       (ThenRan(p) \/ CacheWrote(p)) /\ pipe'[p].notified > pipe[p].notified
       => waiters'[p].state = "resolved" /\ waiters'[p].kind = "response"]_vars

\* C29: a catch-handler that reaches the emission of the error event calls
\* every subscribed listener once, whatever the listeners do, and then retries
\* or rejects the group.
C29_ListenersAreFireAndForget ==
  [][\A p \in 1..MaxCalls :
       CatchRan(p) /\ pipe'[p].thrownBy # "response"
       => /\ pipe'[p].events.called = pipe'[p].events.subscribed
          /\ \/ pipe'[p].pc = "flight"
             \/ pipe'[p].pc = "done" /\ waiters'[p].state = "rejected"]_vars

\* C30: when getStaleWhileRevalidate throws on a stale cache hit, the run
\* starts its first transport attempt in the same step, leaving every waiter
\* as it is, and the group is settled later by what the transport does: it is
\* never settled from the cache and the exception never ends the run.
C30_StaleHookExceptionIsContained ==
  /\ [][\A p \in 1..MaxCalls :
          p \in Calls /\ pipe[p].pc = "cache" /\ pipe'[p].staleHook = "throws"
          => /\ pipe'[p].pc = "flight"
             /\ pipe'[p].attempts = 1
             /\ pendingRequestCancelTokenSources' =
                  Append(pendingRequestCancelTokenSources, <<p, 0>>)
             /\ waiters' = waiters /\ requestQueue' = requestQueue]_vars
  /\ [](\A p \in Calls :
          pipe[p].staleHook = "throws" =>
            /\ pipe[p].thrownBy # "getStaleWhileRevalidate"
            /\ pipe[p].lookup = "stale"
            /\ waiters[p].state # "pending" =>
                 /\ pipe[p].pc = "done"
                 /\ waiters[p].kind \in {"response", "Error", "AxiosError"})

C30_Witness ==
  \E p \in Calls :
     /\ pipe[p].staleHook = "throws"
     /\ waiters[p] = Resolved("response", ServerData)

\* Whether the cache has been consulted for call p: getCachedData has been
\* called or has returned, or cacheData has been called or has returned.
CacheConsulted(p) ==
  \/ pipe[p].pc \in {"cache", "cacheWrite"}
  \/ pipe[p].lookup # ""
  \/ pipe[p].cacheWrite # ""

\* C31: getCachedData and cacheData are called only for a request that is
\* GET-equivalent (method unset, 'get' or 'GET'), carries a cacheId, and is made
\* of an adapter with a configured cache.
C31_CacheOnlyForCacheableReads ==
  \A p \in Calls :
     CacheConsulted(p) =>
       /\ calls[p].options.method \in {"unset", "get", "GET"}
       /\ calls[p].options.cacheId # "none"
       /\ config.cache

\* C32: the waiters of a group have their resolve or reject called in the
\* order in which they were enqueued (calls are numbered as they are made), and
\* every waiter of the group is called.
C32_WaitersSettledInEnqueueOrder ==
  \A p \in Calls :
     /\ IsStrictlyIncreasing(pipe[p].settled)
     /\ pipe[p].pc = "done" =>
          Range(pipe[p].settled) = {c \in Calls : calls[c].group = p}
     /\ \A c \in Range(pipe[p].settled) : waiters[c].state # "pending"

C32_Witness ==
  \E p \in Calls : Len(pipe[p].settled) = 2 /\ pipe[p].settled[1] < pipe[p].settled[2]

\* C33: every transport attempt, the first and each retry, is sent with
\* credentials and with the default headers of the moment it is issued,
\* overridden key by key by the headers of the call; so a rotation or a logout
\* between two attempts shows in the later attempt.
C33_AttemptHeadersAreReadAtIssue ==
  [][\A p \in 1..MaxCalls :
       AttemptIssued(p) =>
         LET own == CallHeaders(calls'[p].options.headers)
         IN  /\ pipe'[p].withCredentials
             /\ DOMAIN pipe'[p].headers = DOMAIN defaultRequestHeaders \cup DOMAIN own
             /\ \A k \in DOMAIN pipe'[p].headers :
                  pipe'[p].headers[k] =
                    IF k \in DOMAIN own THEN own[k] ELSE defaultRequestHeaders[k]]_vars

\* The first call, whose first attempt was issued before any response, is in
\* its retry with a header that only a rotation in between can have set.
C33_Witness ==
  /\ 1 \in Calls
  /\ calls[1].options.cacheId = "none"
  /\ pipe[1].pc = "flight"
  /\ pipe[1].retryCount >= 1
  /\ "x-session" \in DOMAIN pipe[1].headers

\* The runs of a fingerprint that have neither settled nor thrown.
RunningFor(k) == {p \in Calls : calls[p].requestId = k /\ Running(p)}

\* C34: the check and the insert or append of enqueueing happen in one step, so
\* at any time a fingerprint has at most one group and at most one running
\* orchestrator run, that of the call that created the group; and a call that
\* arrives while that run is suspended (in the cache lookup, in a transport
\* attempt, before a handler or in the cache write) joins the group and
\* starts nothing.
C34_OneGroupAndOneRunPerFingerprint ==
  /\ [](\A p, q \in Calls :
          /\ Running(p) /\ Running(q) /\ calls[p].requestId = calls[q].requestId
             => p = q
          /\ Running(p) =>
               /\ calls[p].requestId \in DOMAIN requestQueue
               /\ requestQueue[calls[p].requestId][1] = p)
  /\ [][Len(calls') > Len(calls) =>
          LET c == Len(calls')
              k == calls'[c].requestId
          IN  RunningFor(k) # {} =>
                /\ pipe'[c].pc = "none"
                /\ requestQueue'[k] = Append(requestQueue[k], c)
                /\ pendingRequestCancelTokenSources' = pendingRequestCancelTokenSources
                /\ \A p \in Calls : pipe'[p] = pipe[p]]_vars

C34_Witness ==
  \E p, c \in Calls :
     /\ p < c
     /\ pipe[p].pc \in {"cache", "cacheWrite"}
     /\ requestQueue[calls[p].requestId] = <<p, c>>
     /\ pipe[c].pc = "none"

\* The handles of call p's run that are in the registry.
HandlesOf(p) ==
  {i \in 1..Len(pendingRequestCancelTokenSources) :
     pendingRequestCancelTokenSources[i][1] = p}

\* C35: a group has at most one transport attempt in flight and at most one
\* handle in the registry: a retry registers its handle after the handle of
\* the failed attempt has been removed.
C35_OneHandlePerGroup ==
  \A p \in Calls : Cardinality(HandlesOf(p)) <= 1

\* C36: a run calls the settlement of its group at most once, by resolve or by
\* reject, and does nothing after it; a waiter is only ever settled by the run
\* of the call that created its group, so the settlement of one run never
\* reaches the group that a later call creates for the same fingerprint.
C36_OneSettlementPerRun ==
  [][/\ \A p \in Calls :
          /\ pipe[p].pc = "done" => pipe'[p] = pipe[p]
          /\ pipe'[p].settled # pipe[p].settled =>
               /\ pipe[p].settled = <<>>
               /\ Running(p)
               /\ pipe'[p].pc = "done"
               /\ \A c \in Range(pipe'[p].settled) :
                    /\ calls[c].group = p
                    /\ waiters[c].state = "pending"
                    /\ waiters'[c] = waiters'[p]
     /\ \A c \in Calls :
          waiters'[c] # waiters[c] =>
            /\ waiters[c].state = "pending"
            /\ pipe'[calls[c].group].settled # pipe[calls[c].group].settled
            /\ c \in Range(pipe'[calls[c].group].settled)]_vars

C36_Witness ==
  \E p, q \in Calls :
     /\ p < q
     /\ calls[p].requestId = calls[q].requestId
     /\ pipe[p].settled = <<p>>
     /\ pipe[q].settled = <<q>>
     /\ waiters[p] # waiters[q]

\* What a failure can reject a group with when the message is made with label.
RejectionsLabelled(label) ==
  {ErrorMessage(e, label) :
     e \in TransportErrors \cup ShapedTransportErrors
           \cup {CanceledError(CANCELLED_API_REQUEST_MESSAGE),
                 CanceledError(AxiosCanceledMessage)}}

\* C37: a group takes its per-call behaviour from the call that created it.
\* Nothing runs and no handle is registered for a call that joined; the cache
\* is consulted, the stale hook and onServerSuccess are called, the response is
\* processed, the headers of every attempt are made and the rejection message
\* is labelled as the options of the creating call say, whatever the options
\* of the joined calls; the joined calls receive the same settlement.
C37_OnlyTheCreatorContributes ==
  /\ [](\A c \in Calls :
          LET p == calls[c].group
              own == calls[p].options
          IN  /\ calls[c].existed => pipe[c] = NoPipe /\ HandlesOf(c) = {}
              /\ CacheConsulted(p) => own.cacheId # "none"
              /\ pipe[p].staleSeen # "" => own.getStaleWhileRevalidate # "absent"
              /\ pipe[p].notified > 0 => own.onServerSuccess # "absent"
              /\ pipe[p].pc = "flight" =>
                   (own.headers = "h2" <=>
                      /\ "authorization" \in DOMAIN pipe[p].headers
                      /\ pipe[p].headers["authorization"] = "mine")
              /\ waiters[c].state = "rejected" /\ waiters[c].kind = "Error" =>
                   waiters[c].body \in
                     RejectionsLabelled(IF own.label = "unset" THEN "operation"
                                        ELSE own.label)
              /\ waiters[c].state = "resolved" /\ waiters[c].kind = "response"
                   /\ own.processResponse = "absent"
                 => waiters[c].body = ServerData
              /\ waiters[c].state # "pending" => waiters[c] = waiters[p])

C37_Witness ==
  \E p, c \in Calls :
     /\ p # c
     /\ calls[c].group = p
     /\ config.cache
     /\ calls[p].options.label = "load items"
     /\ calls[c].options.cacheId # "none"
     /\ calls[c].options.getStaleWhileRevalidate # "absent"
     /\ pipe[p].lookup = ""
     /\ waiters[c] = Rejected("Error", FailedWithMessage("load items", "Server busy"))

\* The step in which the cache lookup of call p returns an entry that is not stale.
FreshHit(p) == p \in Calls /\ pipe[p].pc = "cache" /\ pipe'[p].lookup = "fresh"

\* C38: settling a group from a cache entry that is not stale changes the
\* queue and the waiters of that group only: no handle is created or
\* registered, rotateHeaders is not called and the default headers and their
\* persisted copy stay as they are, cacheData is not called, and the run has
\* ended.
C38_FreshHitFrame ==
  /\ [][\A p \in 1..MaxCalls :
          FreshHit(p) =>
            /\ pendingRequestCancelTokenSources' = pendingRequestCancelTokenSources
            /\ defaultRequestHeaders' = defaultRequestHeaders
            /\ storage' = storage
            /\ forced' = forced /\ calls' = calls /\ config' = config
            /\ \A q \in Calls : q # p => pipe'[q] = pipe[q]
            /\ \A c \in Calls : calls[c].group # p => waiters'[c] = waiters[c]
            /\ DOMAIN requestQueue' = DOMAIN requestQueue \ {calls[p].requestId}
            /\ \A k \in DOMAIN requestQueue' : requestQueue'[k] = requestQueue[k]]_vars
  /\ [](\A p \in Calls :
          pipe[p].lookup = "fresh" =>
            /\ pipe[p].pc = "done"
            /\ pipe[p].cacheWrite = ""
            /\ pipe[p].controller = ""
            /\ HandlesOf(p) = {})

C38_Witness ==
  \E p, q \in Calls :
     /\ pipe[p].lookup = "fresh"
     /\ waiters[p] = Resolved("cached", CachedData)
     /\ HandlesOf(q) # {}
     /\ defaultRequestHeaders # NoHeaders

\* A step that empties the default headers or removes their persisted copy:
\* rotation only ever adds to them and persists them, so this is logout().
HeadersCleared ==
  /\ <<defaultRequestHeaders', storage'>> = <<NoHeaders, NoEntry>>
  /\ <<defaultRequestHeaders, storage>> # <<NoHeaders, NoEntry>>

\* C39: logout() changes the default headers and their persisted copy only:
\* the queue, the waiters, the registry and every run are as before, nothing is
\* cancelled; a request that was in flight goes on, and when its response has
\* come its success patches what rotateHeaders returns onto the cleared
\* default headers and persists it.
C39_LogoutFrame ==
  [][/\ HeadersCleared =>
          /\ requestQueue' = requestQueue
          /\ pendingRequestCancelTokenSources' = pendingRequestCancelTokenSources
          /\ waiters' = waiters
          /\ pipe' = pipe
          /\ calls' = calls /\ forced' = forced /\ config' = config
     /\ \A p \in 1..MaxCalls :
          /\ ThenRan(p)
          /\ workload.rotates
          /\ defaultRequestHeaders = NoHeaders
          => /\ defaultRequestHeaders' \in RotatedHeaders
             /\ storage' = [present |-> TRUE, value |-> defaultRequestHeaders']
             /\ pipe'[p].pc = "cacheWrite" \/ waiters'[p].state = "resolved"]_vars

\* The only call was issued with the persisted authorization, logout() came
\* while it was in flight, and its success has rotated a header into the
\* cleared default headers.
C39_Witness ==
  /\ Len(calls) = 1
  /\ pipe[1].pc = "cacheWrite"
  /\ "authorization" \in DOMAIN pipe[1].headers
  /\ defaultRequestHeaders = [k \in {"x-session"} |-> "s1"]
  /\ storage = [present |-> TRUE, value |-> defaultRequestHeaders]

\* The handles of the registry that are not those of call p.
HandlesOfOthers(reg, p) == {h \in Range(reg) : h[1] # p}

\* In the step in which p detects an expired session, only attempts in flight
\* whose handle is registered are cancelled, no handle of another request is
\* removed, and a request that has no attempt in flight is left as it is.
CascadeActsOnRegisteredHandlesOnly ==
  \A p \in 1..MaxCalls :
     DetectedExpiredSession(p) =>
       /\ HandlesOfOthers(pendingRequestCancelTokenSources, p)
            \subseteq HandlesOfOthers(pendingRequestCancelTokenSources', p)
       /\ \A q \in Calls :
            q # p =>
              /\ pipe'[q] # pipe[q] =>
                   /\ pipe[q].pc = "flight"
                   /\ <<q, pipe[q].retryCount>> \in Range(pendingRequestCancelTokenSources)
              /\ waiters'[q] # waiters[q] => calls[q].group = p

\* The failure path of an attempt that the cascade cancelled removes the
\* handle of that attempt.
CancelledAttemptRemovesItsHandle ==
  \A q \in 1..MaxCalls :
     CatchRan(q) /\ pipe[q].err = CanceledError(AxiosCanceledMessage) =>
       <<q, pipe[q].retryCount>> \notin Range(pendingRequestCancelTokenSources')

\* C40: the cascade acts on the handles that are in the registry when the
\* expired session is detected and removes none of them: a request in its cache
\* lookup or between two attempts is not cancelled and goes on, a completed
\* attempt's settlement is not changed, and each cancelled attempt removes its
\* own handle on its failure path.
C40_CascadeActsOnRegisteredHandles ==
  [][CascadeActsOnRegisteredHandlesOnly /\ CancelledAttemptRemovesItsHandle]_vars

====
